---- MODULE Spec2Model ----
(***************************************************************************)
(* Model of fairness11ax.cc: the Poisson uplink generator (PoissonUdpApp), *)
(* the per-station counters (StaStats) with their trace sinks, the queue   *)
(* sampler, the lambda assignment and the results loop of main, run on a   *)
(* single virtual-time event queue.                                        *)
(*                                                                         *)
(* Virtual time is counted in ticks, TicksPerMs ticks to a millisecond.    *)
(* The event queue is a set of events [ts, uid, kind, sta]; the simulator  *)
(* runs the event that is least in (ts, uid), so events with the same time *)
(* stamp run in the order they were scheduled.                             *)
(***************************************************************************)
EXTENDS Integers, Sequences, FiniteSets, TLC

(* ---------------- bounds of the model ---------------- *)

\* longest lambdaList string drawn by InitAssign
MaxCsvLen == 5
\* most legacy stations / HE stations drawn by InitAssign
MaxLegacy == 2
MaxHe == 3
\* resolution of virtual time
TicksPerMs == 2
\* longest simTime (in ticks) drawn by Init
MaxSimTicks == 3
\* most inputs the medium gives in one run: trace notifications fired and
\* non-empty queue readings
MaxNotif == 2
\* longest inter-arrival delay (in ticks) drawn from the exponential variable
MaxDelay == 2
\* largest sent-count at which InitSource starts a source and SpecSource
\* still runs its SendOnce
MaxDirectSent == 2
\* largest event uid at which SpecSource still calls ScheduleNext
MaxDirectUid == 4
\* largest send cap a PoissonUdpApp is set up with in SpecCapped
MaxCap == 2

(* ---------------- program constants ---------------- *)

\* const Time appStart = Seconds(1.0)
AppStartMs == 1000
\* Simulator::Stop(appStop + Seconds(0.2))
StopMarginMs == 200
\* Simulator::Schedule(MilliSeconds(1), &SampleQueue, ...)
ProbePeriodMs == 1
\* uint32_t payloadSize = 1200
payloadSize == 1200
\* double lambdaLegacy = 1000.0 ; double lambdaHe = 1000.0
lambdaLegacyDefault == 1000
lambdaHeDefault == 1000

Ms(x) == x * TicksPerMs

VARIABLES
  pc,             \* position of main: "assign", "install", "run", "results", "done", "aborted"
  nLegacy, mHe,   \* station counts (command line)
  simTime,        \* simTime, in ticks (command line)
  lambdaListCsv,  \* lambdaList, a sequence of characters (command line)
  lambdaLegacy, lambdaHe, \* class defaults (command line)
  maxPackets,     \* the maxPackets argument of Setup (main passes none)
  lambdas,        \* std::vector<double> lambdas
  apps,           \* the PoissonUdpApp of each station
  sockSent,       \* packets handed to m_socket->Send, per station
  hist,           \* per station: StartApplication has run, StopApplication has run,
                  \* StopApplication cancelled a pending send
  stats,          \* std::vector<StaStats> stats
  txFired,        \* MonitorSnifferTx firings of each station's PHY
  notifLeft,      \* inputs the medium may still give (notifications, queue backlog)
  events,         \* the simulator's event queue
  now,            \* Simulator::Now()
  nextUid,        \* uid of the next scheduled event
  m_stop,         \* the simulator's stop flag
  report          \* the lines printed by the results loop

vars == <<pc, nLegacy, mHe, simTime, lambdaListCsv, lambdaLegacy, lambdaHe,
          maxPackets, lambdas, apps, sockSent, hist, stats, txFired, notifLeft,
          events, now, nextUid, m_stop, report>>

inputs == <<nLegacy, mHe, simTime, lambdaListCsv, lambdaLegacy, lambdaHe, maxPackets>>

nTotal == nLegacy + mHe
Stations == 0 .. (nTotal - 1)

(* ---------------- ParseCsvDoubles ---------------- *)

Digits == {"0", "5", "8"}
CsvChars == Digits \cup {",", "a", "-"}

DigitVal(c) == IF c = "5" THEN 5 ELSE IF c = "8" THEN 8 ELSE 0

\* the longest prefix of s made of digits
RECURSIVE DigitPrefix(_)
DigitPrefix(s) ==
  IF s = << >> \/ Head(s) \notin Digits THEN << >>
  ELSE <<Head(s)>> \o DigitPrefix(Tail(s))

RECURSIVE DecimalValue(_, _)
DecimalValue(s, acc) ==
  IF s = << >> THEN acc ELSE DecimalValue(Tail(s), 10 * acc + DigitVal(Head(s)))

\* std::stod on the characters of CsvChars: an optional sign, then the longest
\* run of digits; what follows the number is ignored; no digit at all throws
\* std::invalid_argument
Stod(item) ==
  LET neg  == item # << >> /\ Head(item) = "-"
      body == IF neg THEN Tail(item) ELSE item
      ds   == DigitPrefix(body)
  IN  IF ds = << >> THEN [ok |-> FALSE, val |-> 0]
      ELSE [ok |-> TRUE,
            val |-> IF neg THEN 0 - DecimalValue(ds, 0) ELSE DecimalValue(ds, 0)]

\* std::getline(ss, item, ','): the items of s between commas, in order
RECURSIVE GetLines(_, _)
GetLines(s, item) ==
  IF s = << >> THEN (IF item = << >> THEN << >> ELSE <<item>>)
  ELSE IF Head(s) = "," THEN <<item>> \o GetLines(Tail(s), << >>)
  ELSE GetLines(Tail(s), Append(item, Head(s)))

RECURSIVE PushBackAll(_, _)
PushBackAll(items, out) ==
  IF items = << >> THEN [ok |-> TRUE, out |-> out]
  ELSE IF Head(items) = << >> THEN PushBackAll(Tail(items), out)
  ELSE IF ~Stod(Head(items)).ok THEN [ok |-> FALSE, out |-> << >>]
  ELSE PushBackAll(Tail(items), Append(out, Stod(Head(items)).val))

ParseCsvDoubles(s) ==
  IF s = << >> THEN [ok |-> TRUE, out |-> << >>]
  ELSE PushBackAll(GetLines(s, << >>), << >>)

(* ---------------- lambda assignment (main) ---------------- *)

\* lambdas[i] of the explicit-list branch
ListLambda_front(parsed, i) ==
  IF i < Len(parsed) THEN parsed[i + 1] ELSE parsed[1]

ListLambda(parsed, i) ==
  IF i < Len(parsed) THEN parsed[i + 1] ELSE parsed[Len(parsed)]

\* lambdas[i] of the default branch
DefaultLambda_swapped(i) ==
  IF i < nLegacy THEN lambdaHe ELSE lambdaLegacy

DefaultLambda(i) ==
  IF i < nLegacy THEN lambdaLegacy ELSE lambdaHe

LambdaAssignment ==
  /\ pc = "assign"
  /\ LET parsed == ParseCsvDoubles(lambdaListCsv)
     IN  IF ~parsed.ok
         THEN /\ pc' = "aborted"
              /\ lambdas' = lambdas
         ELSE /\ pc' = "install"
              /\ lambdas' = IF parsed.out # << >>
                            THEN [i \in Stations |-> ListLambda(parsed.out, i)]
                            ELSE [i \in Stations |-> DefaultLambda(i)]
  /\ UNCHANGED <<inputs, apps, sockSent, hist, stats, txFired, notifLeft,
                 events, now, nextUid, m_stop, report>>

(* ---------------- the simulator's event queue ---------------- *)

appStart == Ms(AppStartMs)
appStop == Ms(AppStartMs) + simTime

Event(ts, uid, kind, sta) == [ts |-> ts, uid |-> uid, kind |-> kind, sta |-> sta]

\* the event the simulator runs next: least time stamp, then least uid
NextEv ==
  CHOOSE e \in events :
    \A f \in events : e.ts < f.ts \/ (e.ts = f.ts /\ e.uid <= f.uid)

\* Simulator::Run is about to invoke an event of this kind for station i
Fires(kind, i) ==
  /\ pc = "run"
  /\ ~m_stop
  /\ events # {}
  /\ NextEv.kind = kind
  /\ NextEv.sta = i

\* EventId::IsPending
IsPending(id, evs) == \E e \in evs : e.uid = id

(* ---------------- PoissonUdpApp ---------------- *)

\* uint64_t maxPackets = 0: main calls Setup without this argument
DefaultMaxPackets == 0

Setup(lambdaPktsPerSec, cap) ==
  [m_lambda |-> lambdaPktsPerSec, m_maxPackets |-> cap, m_sent |-> 0,
   m_running |-> FALSE, m_sendEvent |-> 0, m_socket |-> "created"]

\* inter-arrival delays m_rng->GetValue() can return, in ticks
Delays == 1 .. MaxDelay

\* the two early returns of ScheduleNext
ScheduleIdle_noRateGuard(a) == ~a.m_running

ScheduleIdle(a) == ~a.m_running \/ a.m_lambda <= 0

\* m_sendEvent after Simulator::Schedule returned the event uid
StoreHandle_dropped(a, uid) == a

StoreHandle(a, uid) == [a EXCEPT !.m_sendEvent = uid]

\* ScheduleNext run at time t with the delay dt drawn from m_rng: the app, the
\* event queue and the next free uid after it
ScheduleNext(a, evs, i, t, dt) ==
  IF ScheduleIdle(a)
  THEN [app |-> a, events |-> evs, nextUid |-> nextUid]
  ELSE [app |-> StoreHandle(a, nextUid),
        events |-> evs \cup {Event(t + dt, nextUid, "SendOnce", i)},
        nextUid |-> nextUid + 1]

StartApplication(i) ==
  /\ Fires("StartApplication", i)
  /\ \E dt \in Delays :
       LET e  == NextEv
           a1 == [apps[i] EXCEPT !.m_running = TRUE, !.m_socket = "connected"]
           r  == ScheduleNext(a1, events \ {e}, i, e.ts, dt)
       IN  /\ now' = e.ts
           /\ apps' = [apps EXCEPT ![i] = r.app]
           /\ events' = r.events
           /\ nextUid' = r.nextUid
  /\ hist' = [hist EXCEPT ![i].started = TRUE]
  /\ UNCHANGED <<pc, inputs, lambdas, sockSent, stats, txFired, notifLeft,
                 m_stop, report>>

\* StopApplication that neither clears m_running nor cancels the send
StopApplication_closeOnly(i) ==
  /\ Fires("StopApplication", i)
  /\ now' = NextEv.ts
  /\ events' = events \ {NextEv}
  /\ apps' = [apps EXCEPT ![i].m_socket = "closed"]
  /\ hist' = [hist EXCEPT ![i].stopped = TRUE]
  /\ UNCHANGED <<pc, inputs, lambdas, sockSent, stats, txFired, notifLeft,
                 nextUid, m_stop, report>>

\* the event queue after  if (m_sendEvent.IsPending()) Simulator::Cancel(m_sendEvent)
CancelSend_none(a, evs) == evs

CancelSend(a, evs) ==
  IF IsPending(a.m_sendEvent, evs)
  THEN {e \in evs : e.uid # a.m_sendEvent}
  ELSE evs

StopApplication(i) ==
  /\ Fires("StopApplication", i)
  /\ LET e   == NextEv
         evs == events \ {e}
     IN  /\ now' = e.ts
         /\ events' = CancelSend(apps[i], evs)
         /\ apps' = [apps EXCEPT ![i].m_running = FALSE, ![i].m_socket = "closed"]
         /\ hist' = [hist EXCEPT ![i].stopped = TRUE,
                                 ![i].cancelled = IsPending(apps[i].m_sendEvent, evs)]
  /\ UNCHANGED <<pc, inputs, lambdas, sockSent, stats, txFired, notifLeft,
                 nextUid, m_stop, report>>

\* if (m_maxPackets != 0 && m_sent >= m_maxPackets) return;
CapReached_gt(a) == a.m_maxPackets # 0 /\ a.m_sent > a.m_maxPackets

CapReached(a) == a.m_maxPackets # 0 /\ a.m_sent >= a.m_maxPackets

\* SendOnce without the closing ScheduleNext()
SendOnce_noSuccessor(i) ==
  /\ Fires("SendOnce", i)
  /\ now' = NextEv.ts
  /\ events' = events \ {NextEv}
  /\ IF ~apps[i].m_running \/ CapReached(apps[i])
     THEN UNCHANGED <<apps, sockSent>>
     ELSE /\ sockSent' = [sockSent EXCEPT ![i] = @ + 1]
          /\ apps' = [apps EXCEPT ![i].m_sent = @ + 1]
  /\ UNCHANGED <<pc, inputs, lambdas, hist, stats, txFired, notifLeft, nextUid,
                 m_stop, report>>

\* SendOnce without the  if (!m_running) return;
SendOnce_noRunningCheck(i) ==
  /\ Fires("SendOnce", i)
  /\ \E dt \in Delays :
       LET e   == NextEv
           evs == events \ {e}
       IN  /\ now' = e.ts
           /\ IF CapReached(apps[i])
              THEN /\ events' = evs
                   /\ UNCHANGED <<apps, sockSent, nextUid>>
              ELSE LET a1 == [apps[i] EXCEPT !.m_sent = @ + 1]
                       r  == ScheduleNext(a1, evs, i, e.ts, dt)
                   IN  /\ sockSent' = [sockSent EXCEPT ![i] = @ + 1]
                       /\ apps' = [apps EXCEPT ![i] = r.app]
                       /\ events' = r.events
                       /\ nextUid' = r.nextUid
  /\ UNCHANGED <<pc, inputs, lambdas, hist, stats, txFired, notifLeft,
                 m_stop, report>>

SendOnce(i) ==
  /\ Fires("SendOnce", i)
  /\ \E dt \in Delays :
       LET e   == NextEv
           evs == events \ {e}
       IN  /\ now' = e.ts
           /\ IF ~apps[i].m_running \/ CapReached(apps[i])
              THEN /\ events' = evs
                   /\ UNCHANGED <<apps, sockSent, nextUid>>
              ELSE LET a1 == [apps[i] EXCEPT !.m_sent = @ + 1]
                       r  == ScheduleNext(a1, evs, i, e.ts, dt)
                   IN  /\ sockSent' = [sockSent EXCEPT ![i] = @ + 1]
                       /\ apps' = [apps EXCEPT ![i] = r.app]
                       /\ events' = r.events
                       /\ nextUid' = r.nextUid
  /\ UNCHANGED <<pc, inputs, lambdas, hist, stats, txFired, notifLeft,
                 m_stop, report>>

\* Application::DoInitialize, run at time 0 for each app added to a node:
\* schedules StartApplication at m_startTime and, when m_stopTime is not zero,
\* StopApplication at m_stopTime
Initialize(i) ==
  /\ Fires("Initialize", i)
  /\ LET e == NextEv
     IN  /\ now' = e.ts
         /\ events' = (events \ {e})
              \cup {Event(e.ts + appStart, nextUid, "StartApplication", i)}
              \cup (IF appStop # 0
                    THEN {Event(e.ts + appStop, nextUid + 1, "StopApplication", i)}
                    ELSE {})
         /\ nextUid' = nextUid + 2
  /\ UNCHANGED <<pc, inputs, lambdas, apps, sockSent, hist, stats, txFired,
                 notifLeft, m_stop, report>>

(* ---------------- StaStats and the trace sinks ---------------- *)

StaStats ==
  [collisionsLike |-> 0, finalFailures |-> 0, phyTxDrops |-> 0,
   qBytesSum |-> 0, qSamples |-> 0,
   heSuTxMpdu |-> 0, heTbTxMpdu |-> 0, heSuTxBytes |-> 0, heTbTxBytes |-> 0]

\* the medium may fire a trace source while Simulator::Run processes events
CanNotify ==
  /\ pc = "run"
  /\ ~m_stop
  /\ notifLeft > 0

\* OnMacTxDataFailed that counts a final failure
OnMacTxDataFailed_finalFailures(staIndex) ==
  /\ CanNotify
  /\ staIndex \in Stations
  /\ stats' = [stats EXCEPT ![staIndex].finalFailures = @ + 1]
  /\ notifLeft' = notifLeft - 1
  /\ UNCHANGED <<pc, inputs, lambdas, apps, sockSent, hist, txFired, events, now,
                 nextUid, m_stop, report>>

OnMacTxDataFailed(staIndex) ==
  /\ CanNotify
  /\ staIndex \in Stations
  /\ stats' = [stats EXCEPT ![staIndex].collisionsLike = @ + 1]
  /\ notifLeft' = notifLeft - 1
  /\ UNCHANGED <<pc, inputs, lambdas, apps, sockSent, hist, txFired, events, now,
                 nextUid, m_stop, report>>

OnMacTxFinalDataFailed(staIndex) ==
  /\ CanNotify
  /\ staIndex \in Stations
  /\ stats' = [stats EXCEPT ![staIndex].finalFailures = @ + 1]
  /\ notifLeft' = notifLeft - 1
  /\ UNCHANGED <<pc, inputs, lambdas, apps, sockSent, hist, txFired, events, now,
                 nextUid, m_stop, report>>

OnPhyTxDrop(staIndex) ==
  /\ CanNotify
  /\ staIndex \in Stations
  /\ stats' = [stats EXCEPT ![staIndex].phyTxDrops = @ + 1]
  /\ notifLeft' = notifLeft - 1
  /\ UNCHANGED <<pc, inputs, lambdas, apps, sockSent, hist, txFired, events, now,
                 nextUid, m_stop, report>>

\* the packet handed to a MonitorSnifferTx sink: a null pointer, or a packet
\* of some size
NullPacket == [null |-> TRUE, size |-> 0]
Packets == {NullPacket, [null |-> FALSE, size |-> payloadSize]}

\* WifiTxVector::GetPreambleType()
Preambles == {"WIFI_PREAMBLE_HE_TB", "WIFI_PREAMBLE_HE_SU", "WIFI_PREAMBLE_LONG"}

\* the stats vector after OnHePhyTxMonitor(staIndex, &stats, p, ..., txVector, ...)
OnHePhyTxMonitor_bothBranches(st, staIndex, p, pre) ==
  LET bytes == IF p.null THEN 0 ELSE p.size
      st1 == IF pre = "WIFI_PREAMBLE_HE_TB"
             THEN [st EXCEPT ![staIndex].heTbTxMpdu = @ + 1,
                             ![staIndex].heTbTxBytes = @ + bytes]
             ELSE st
  IN  IF pre \in {"WIFI_PREAMBLE_HE_TB", "WIFI_PREAMBLE_HE_SU"}
      THEN [st1 EXCEPT ![staIndex].heSuTxMpdu = @ + 1,
                       ![staIndex].heSuTxBytes = @ + bytes]
      ELSE st1

OnHePhyTxMonitor(st, staIndex, p, pre) ==
  LET bytes == IF p.null THEN 0 ELSE p.size
  IN  IF pre = "WIFI_PREAMBLE_HE_TB"
      THEN [st EXCEPT ![staIndex].heTbTxMpdu = @ + 1,
                      ![staIndex].heTbTxBytes = @ + bytes]
      ELSE IF pre = "WIFI_PREAMBLE_HE_SU"
      THEN [st EXCEPT ![staIndex].heSuTxMpdu = @ + 1,
                      ![staIndex].heSuTxBytes = @ + bytes]
      ELSE st

\* MonitorSnifferTx with OnHePhyTxMonitor connected for every station
MonitorSnifferTx_allStations(i, p, pre) ==
  /\ CanNotify
  /\ i \in Stations
  /\ txFired' = [txFired EXCEPT ![i] = @ + 1]
  /\ stats' = OnHePhyTxMonitor(stats, i, p, pre)
  /\ notifLeft' = notifLeft - 1
  /\ UNCHANGED <<pc, inputs, lambdas, apps, sockSent, hist, events, now,
                 nextUid, m_stop, report>>

\* the PHY of station i transmits a frame: its MonitorSnifferTx trace source
\* fires; main connected OnHePhyTxMonitor to it for the HE stations only
MonitorSnifferTx(i, p, pre) ==
  /\ CanNotify
  /\ i \in Stations
  /\ txFired' = [txFired EXCEPT ![i] = @ + 1]
  /\ stats' = IF i >= nLegacy THEN OnHePhyTxMonitor(stats, i, p, pre) ELSE stats
  /\ notifLeft' = notifLeft - 1
  /\ UNCHANGED <<pc, inputs, lambdas, apps, sockSent, hist, events, now,
                 nextUid, m_stop, report>>

\* what txop->GetWifiMacQueue()->GetNBytes() can return: the BE queue holds
\* only what the app of the station sent
QueueReadings(i) ==
  {0} \cup (IF sockSent[i] > 0 /\ notifLeft > 0 THEN {payloadSize} ELSE {})

\* the entry of the station after  qBytesSum += qBytes; qSamples++
AddSample_twice(s, qBytes) ==
  [s EXCEPT !.qBytesSum = @ + qBytes, !.qSamples = @ + 2]

AddSample(s, qBytes) ==
  [s EXCEPT !.qBytesSum = @ + qBytes, !.qSamples = @ + 1]

\* SampleQueue without the closing Simulator::Schedule of itself
SampleQueue_noReschedule(staIndex) ==
  /\ Fires("SampleQueue", staIndex)
  /\ \E qBytes \in QueueReadings(staIndex) :
       /\ stats' = [stats EXCEPT ![staIndex] = AddSample(@, qBytes)]
       /\ notifLeft' = IF qBytes = 0 THEN notifLeft ELSE notifLeft - 1
  /\ now' = NextEv.ts
  /\ events' = events \ {NextEv}
  /\ UNCHANGED <<pc, inputs, lambdas, apps, sockSent, hist, txFired, nextUid,
                 m_stop, report>>

SampleQueue(staIndex) ==
  /\ Fires("SampleQueue", staIndex)
  /\ \E qBytes \in QueueReadings(staIndex) :
       /\ stats' = [stats EXCEPT ![staIndex] = AddSample(@, qBytes)]
       /\ notifLeft' = IF qBytes = 0 THEN notifLeft ELSE notifLeft - 1
  /\ now' = NextEv.ts
  /\ events' = (events \ {NextEv})
       \cup {Event(NextEv.ts + Ms(ProbePeriodMs), nextUid, "SampleQueue", staIndex)}
  /\ nextUid' = nextUid + 1
  /\ UNCHANGED <<pc, inputs, lambdas, apps, sockSent, hist, txFired,
                 m_stop, report>>

(* ---------------- main ---------------- *)

\* InstallAndWire with a stats vector of nLegacy entries
InstallAndWire_shortTable ==
  /\ pc = "install"
  /\ pc' = "run"
  /\ apps' = [i \in Stations |-> Setup(lambdas[i], DefaultMaxPackets)]
  /\ sockSent' = [i \in Stations |-> 0]
  /\ hist' = [i \in Stations |-> [started |-> FALSE, stopped |-> FALSE, cancelled |-> FALSE]]
  /\ stats' = [i \in 0 .. (nLegacy - 1) |-> StaStats]
  /\ txFired' = [i \in Stations |-> 0]
  /\ events' = {Event(0, i + 1, "Initialize", i) : i \in Stations}
        \cup {Event(Ms(ProbePeriodMs), nTotal + i + 1, "SampleQueue", i) : i \in Stations}
        \cup {Event(appStop + Ms(StopMarginMs), 2 * nTotal + 1, "Stop", 0)}
  /\ nextUid' = 2 * nTotal + 2
  /\ UNCHANGED <<inputs, lambdas, notifLeft, now, m_stop, report>>

\* main from the app installation to Simulator::Stop(appStop + Seconds(0.2)):
\* one app per station, set up with its rate and no send cap (AddApplication
\* schedules its Initialize at time 0), the stats vector, one queue sampler
\* per station, the stop event
InstallAndWire ==
  /\ pc = "install"
  /\ pc' = "run"
  /\ apps' = [i \in Stations |-> Setup(lambdas[i], DefaultMaxPackets)]
  /\ sockSent' = [i \in Stations |-> 0]
  /\ hist' = [i \in Stations |-> [started |-> FALSE, stopped |-> FALSE, cancelled |-> FALSE]]
  /\ stats' = [i \in Stations |-> StaStats]
  /\ txFired' = [i \in Stations |-> 0]
  /\ events' = {Event(0, i + 1, "Initialize", i) : i \in Stations}
        \cup {Event(Ms(ProbePeriodMs), nTotal + i + 1, "SampleQueue", i) : i \in Stations}
        \cup {Event(appStop + Ms(StopMarginMs), 2 * nTotal + 1, "Stop", 0)}
  /\ nextUid' = 2 * nTotal + 2
  /\ UNCHANGED <<inputs, lambdas, notifLeft, now, m_stop, report>>

\* the stop event: Simulator::Stop()
SimulatorStop ==
  /\ Fires("Stop", 0)
  /\ now' = NextEv.ts
  /\ events' = events \ {NextEv}
  /\ m_stop' = TRUE
  /\ UNCHANGED <<pc, inputs, lambdas, apps, sockSent, hist, stats, txFired,
                 notifLeft, nextUid, report>>

\* Simulator::Run returns once the stop flag is set or the queue is empty
RunReturns ==
  /\ pc = "run"
  /\ (m_stop \/ events = {})
  /\ pc' = "results"
  /\ UNCHANGED <<inputs, lambdas, apps, sockSent, hist, stats, txFired, notifLeft,
                 events, now, nextUid, m_stop, report>>

\* avgQ computed without the cast to double
AvgQ_integerDivision(s) ==
  IF s.qSamples > 0 THEN [num |-> s.qBytesSum \div s.qSamples, den |-> 1]
  ELSE [num |-> 0, den |-> 1]

\* avgQ as the fraction num/den
AvgQ(s) ==
  IF s.qSamples > 0 THEN [num |-> s.qBytesSum, den |-> s.qSamples]
  ELSE [num |-> 0, den |-> 1]

ResultLine(i) ==
  [isLegacy |-> (i < nLegacy), lambda |-> lambdas[i], avgQ |-> AvgQ(stats[i]),
   macTxDataFailed |-> stats[i].collisionsLike,
   macTxFinalDataFailed |-> stats[i].finalFailures,
   phyTxDrop |-> stats[i].phyTxDrops,
   heSuTxMpdu |-> stats[i].heSuTxMpdu, heTbTxMpdu |-> stats[i].heTbTxMpdu,
   heSuTxBytes |-> stats[i].heSuTxBytes, heTbTxBytes |-> stats[i].heTbTxBytes]

\* the results loop run before Simulator::Run has returned
PrintResults_beforeRunReturns ==
  /\ pc = "run"
  /\ pc' = "done"
  /\ report' = [i \in Stations |-> ResultLine(i)]
  /\ events' = {}
  /\ UNCHANGED <<inputs, lambdas, apps, sockSent, hist, stats, txFired, notifLeft,
                 now, nextUid, m_stop>>

\* the results loop, then Simulator::Destroy
PrintResults ==
  /\ pc = "results"
  /\ pc' = "done"
  /\ report' = [i \in Stations |-> ResultLine(i)]
  /\ events' = {}
  /\ UNCHANGED <<inputs, lambdas, apps, sockSent, hist, stats, txFired, notifLeft,
                 now, nextUid, m_stop>>

(* ---------------- specifications ---------------- *)

Empty == << >>

InitState ==
  /\ pc = "assign"
  /\ lambdas = Empty /\ apps = Empty /\ sockSent = Empty /\ hist = Empty
  /\ stats = Empty /\ txFired = Empty /\ report = Empty
  /\ events = {}
  /\ now = 0
  /\ nextUid = 1
  /\ m_stop = FALSE

\* the runs of the whole program. The traffic runs vary the rates and the run
\* length on a silent medium; the medium run lets the medium fire its trace
\* sources and back the queues up.
SimShapes == {<<1, 1>>}
SimTimes == {0, MaxSimTicks}
SimCsvs == {<< >>, <<"5", ",", "0">>, <<"0", ",", "-", "5">>}

InitTraffic ==
  /\ simTime \in SimTimes
  /\ lambdaListCsv \in SimCsvs
  /\ maxPackets = DefaultMaxPackets
  /\ notifLeft = 0

InitMedium ==
  /\ simTime = MaxSimTicks
  /\ lambdaListCsv = <<"0", ",", "5">>
  /\ maxPackets = DefaultMaxPackets
  /\ notifLeft = MaxNotif

Init ==
  /\ InitState
  /\ \E sh \in SimShapes : nLegacy = sh[1] /\ mHe = sh[2]
  /\ lambdaLegacy = lambdaLegacyDefault
  /\ lambdaHe = lambdaHeDefault
  /\ (InitTraffic \/ InitMedium)

Next ==
  \/ LambdaAssignment
  \/ InstallAndWire
  \/ \E i \in Stations : Initialize(i)
  \/ \E i \in Stations : StartApplication(i)
  \/ \E i \in Stations : StopApplication(i)
  \/ \E i \in Stations : SendOnce(i)
  \/ \E i \in Stations : SampleQueue(i)
  \/ \E i \in Stations : OnMacTxDataFailed(i)
  \/ \E i \in Stations : OnMacTxFinalDataFailed(i)
  \/ \E i \in Stations : OnPhyTxDrop(i)
  \/ \E i \in Stations, p \in Packets, pre \in Preambles : MonitorSnifferTx(i, p, pre)
  \/ SimulatorStop
  \/ RunReturns
  \/ PrintResults

Spec == Init /\ [][Next]_vars

\* the lambda assignment alone, on every lambdaList string of at most MaxCsvLen
\* characters
RECURSIVE CsvStrings(_)
CsvStrings(n) ==
  IF n = 0 THEN {<< >>}
  ELSE LET S == CsvStrings(n - 1)
       IN  S \cup {Append(str, c) : str \in S, c \in CsvChars}

AssignDefaults == {<<100, 200>>, <<1000, 1000>>}

InitAssign ==
  /\ InitState
  /\ nLegacy \in 0 .. MaxLegacy
  /\ mHe \in 0 .. MaxHe
  /\ lambdaListCsv \in CsvStrings(MaxCsvLen)
  /\ \E d \in AssignDefaults : lambdaLegacy = d[1] /\ lambdaHe = d[2]
  /\ simTime = 0
  /\ maxPackets = DefaultMaxPackets
  /\ notifLeft = 0

NextAssign == LambdaAssignment

SpecAssign == InitAssign /\ [][NextAssign]_vars

(* ---------------- claims ---------------- *)

\* the pending send activities of station i
PendingSends(i) == {e \in events : e.kind = "SendOnce" /\ e.sta = i}

\* C1: once StopApplication has run on a source (also when a send was pending
\* at that moment), no step increases its sent-count or hands a packet to its
\* socket.
C1_StopThenNoSends ==
  [][\A i \in DOMAIN hist :
       hist[i].stopped =>
         /\ apps'[i].m_sent = apps[i].m_sent
         /\ sockSent'[i] = sockSent[i]]_vars

\* a source that sent, was stopped with a send pending, and the run went on
\* to its end
C1_Witness ==
  /\ pc = "done"
  /\ \E i \in DOMAIN hist :
       hist[i].stopped /\ hist[i].cancelled /\ apps[i].m_sent > 0

\* C2: in every state, a source that is not running (before Start, or after
\* Stop) has no send activity pending in the event queue.
C2_IdleNothingPending ==
  \A i \in DOMAIN apps : ~apps[i].m_running => PendingSends(i) = {}

\* a source stopped while a send was pending, the run still going; and a
\* source still idle before its start while the queue samplers run
C2_Witness ==
  /\ pc = "run"
  /\ \E i \in DOMAIN apps :
       ~apps[i].m_running /\ hist[i].started /\ hist[i].cancelled

\* C3: in every state each source has at most one pending send activity, and
\* it is the one m_sendEvent refers to.
C3_OnePendingSendOwned ==
  \A i \in DOMAIN apps :
    /\ Cardinality(PendingSends(i)) <= 1
    /\ \A e \in PendingSends(i) : e.uid = apps[i].m_sendEvent

\* two sources with a send pending each, one of them rescheduled after a send
C3_Witness ==
  \E i, j \in DOMAIN apps :
    /\ i # j
    /\ apps[i].m_sent > 0
    /\ PendingSends(i) # {}
    /\ PendingSends(j) # {}

\* C4: a source whose rate is zero or negative never sends and never has a
\* send scheduled, whatever the run length.
C4_NonPositiveRateIdle ==
  \A i \in DOMAIN apps :
    apps[i].m_lambda <= 0 =>
      /\ apps[i].m_sent = 0
      /\ sockSent[i] = 0
      /\ apps[i].m_sendEvent = 0
      /\ PendingSends(i) = {}

\* a run of positive length ended in which a zero-rate source and a
\* negative-rate source were both started and stopped
C4_Witness ==
  /\ pc = "done"
  /\ simTime > 0
  /\ \E i, j \in DOMAIN apps :
       /\ apps[i].m_lambda = 0 /\ hist[i].started /\ hist[i].stopped
       /\ apps[j].m_lambda < 0 /\ hist[j].started /\ hist[j].stopped

\* C5: with a send cap set, sent-count never exceeds the cap, and a SendOnce
\* that fires with the cap reached changes neither the source nor what was
\* handed to the socket.
C5_SendCap ==
  /\ [](\A i \in DOMAIN apps :
          apps[i].m_maxPackets # 0 => apps[i].m_sent <= apps[i].m_maxPackets)
  /\ [][\A i \in DOMAIN apps :
          (/\ Fires("SendOnce", i)
           /\ apps[i].m_maxPackets # 0
           /\ apps[i].m_sent >= apps[i].m_maxPackets)
          => (apps'[i] = apps[i] /\ sockSent'[i] = sockSent[i] /\ pc' = pc)]_vars

\* a running source with a positive rate sits at its cap with no send pending:
\* its last SendOnce fired at the cap and did nothing
C5_Witness ==
  /\ pc = "run"
  /\ \E i \in DOMAIN apps :
       /\ apps[i].m_running
       /\ apps[i].m_lambda > 0
       /\ apps[i].m_maxPackets # 0
       /\ apps[i].m_sent = apps[i].m_maxPackets
       /\ sockSent[i] = apps[i].m_maxPackets
       /\ PendingSends(i) = {}

\* an explicit rate list written out as a lambdaList string: the decimal
\* numbers, separated by commas
DigitChar(d) == CHOOSE c \in Digits : DigitVal(c) = d

RECURSIVE DecimalChars(_)
DecimalChars(v) ==
  IF v < 0 THEN <<"-">> \o DecimalChars(0 - v)
  ELSE IF v < 10 THEN <<DigitChar(v)>>
  ELSE DecimalChars(v \div 10) \o <<DigitChar(v % 10)>>

RECURSIVE CsvOf(_)
CsvOf(list) ==
  IF Len(list) = 1 THEN DecimalChars(list[1])
  ELSE DecimalChars(list[1]) \o <<",">> \o CsvOf(Tail(list))

RateValues == {0, 5, 8, 50, 80, 0 - 5}
RateLists ==
  {<<a>> : a \in RateValues}
    \cup {<<a, b>> : a \in RateValues, b \in RateValues}
    \cup {<<a, b, c>> : a \in RateValues, b \in RateValues, c \in RateValues}

\* the non-empty rate lists whose string InitAssign can draw, with the string
CsvTable ==
  {<<CsvOf(list), list>> : list \in {l \in RateLists : Len(CsvOf(l)) <= MaxCsvLen + 1}}

\* C6: with a non-empty explicit rate list, the lambdas vector has one entry
\* per station, entry i being list[i] for i below the list length and the
\* last list element above it, whatever the class defaults.
C6_ExplicitListExtension ==
  pc # "assign" =>
    \A pr \in CsvTable :
      pr[1] = lambdaListCsv =>
        /\ pc = "install"
        /\ lambdas = [i \in Stations |->
                        IF i < Len(pr[2]) THEN pr[2][i + 1] ELSE pr[2][Len(pr[2])]]

\* list 50,80 with nLegacy=1, mHe=3 was assigned as 50, 80, 80, 80
C6_Witness ==
  /\ pc = "install"
  /\ lambdaListCsv = <<"5", "0", ",", "8", "0">>
  /\ nLegacy = 1 /\ mHe = 3
  /\ lambdas = [i \in 0 .. 3 |-> IF i = 0 THEN 50 ELSE 80]

\* C7: with no explicit rate list, the lambdas vector has one entry per
\* station, the legacy default below nLegacy and the HE default from nLegacy on.
C7_DefaultRates ==
  (pc # "assign" /\ lambdaListCsv = << >>) =>
    /\ pc = "install"
    /\ lambdas = [i \in Stations |-> IF i < nLegacy THEN lambdaLegacy ELSE lambdaHe]

\* no list, nLegacy=2, mHe=1, defaults 100 and 200 were assigned as 100, 100, 200
C7_Witness ==
  /\ pc = "install"
  /\ lambdaListCsv = << >>
  /\ nLegacy = 2 /\ mHe = 1
  /\ lambdaLegacy = 100 /\ lambdaHe = 200
  /\ lambdas = [i \in 0 .. 2 |-> IF i < 2 THEN 100 ELSE 200]

\* C8: on any table the run reaches, the frame-transmitted sink called with
\* (station, packet, preamble) adds 1 to the HE_TB count and the size to the
\* HE_TB bytes of that station when the preamble is HE_TB, does the same to
\* the HE_SU pair when it is HE_SU, and changes nothing for another preamble;
\* the other pair, the other fields and the other stations stay as they were.
C8_FrameTransmittedEffect ==
  pc = "run" =>
    \A i \in Stations, p \in Packets, pre \in Preambles :
      LET after == OnHePhyTxMonitor(stats, i, p, pre)
          size  == IF p.null THEN 0 ELSE p.size
          tb    == IF pre = "WIFI_PREAMBLE_HE_TB" THEN 1 ELSE 0
          su    == IF pre = "WIFI_PREAMBLE_HE_SU" THEN 1 ELSE 0
      IN  /\ DOMAIN after = Stations
          /\ \A j \in Stations \ {i} : after[j] = stats[j]
          /\ after[i].heTbTxMpdu = stats[i].heTbTxMpdu + tb
          /\ after[i].heTbTxBytes = stats[i].heTbTxBytes + tb * size
          /\ after[i].heSuTxMpdu = stats[i].heSuTxMpdu + su
          /\ after[i].heSuTxBytes = stats[i].heSuTxBytes + su * size
          /\ after[i].collisionsLike = stats[i].collisionsLike
          /\ after[i].finalFailures = stats[i].finalFailures
          /\ after[i].phyTxDrops = stats[i].phyTxDrops
          /\ after[i].qBytesSum = stats[i].qBytesSum
          /\ after[i].qSamples = stats[i].qSamples

\* the sink ran for an HE_TB frame and for an HE_SU frame of one station
C8_Witness ==
  /\ pc = "run"
  /\ \E i \in DOMAIN stats :
       /\ stats[i].heTbTxMpdu = 1 /\ stats[i].heTbTxBytes = payloadSize
       /\ stats[i].heSuTxMpdu = 1 /\ stats[i].heSuTxBytes = 0
       /\ txFired[i] = 2

\* C9: in every state and for every station, the HE_TB count plus the HE_SU
\* count is at most the number of frame transmissions the PHY of the station
\* has notified.
C9_CountedAtMostFired ==
  \A i \in DOMAIN stats :
    stats[i].heTbTxMpdu + stats[i].heSuTxMpdu <= txFired[i]

\* one station has a counted frame, another transmitted a frame that is not
\* counted
C9_Witness ==
  \E i, j \in DOMAIN stats :
    /\ stats[i].heTbTxMpdu + stats[i].heSuTxMpdu = 1 /\ txFired[i] = 1
    /\ stats[j].heTbTxMpdu + stats[j].heSuTxMpdu = 0 /\ txFired[j] = 1

\* the virtual time of the global stop, in whole milliseconds
FloorT == (appStop + Ms(StopMarginMs)) \div TicksPerMs

\* C10: once the run has ended, the queue-sample count of every station is
\* within 1 of the whole milliseconds of virtual time the run lasted.
C10_SamplesNearRunLength ==
  pc \in {"results", "done"} =>
    \A i \in Stations :
      /\ stats[i].qSamples >= FloorT - 1
      /\ stats[i].qSamples <= FloorT + 1

\* a run that lasted a whole number of milliseconds and a half has ended
C10_Witness ==
  /\ pc = "done"
  /\ (appStop + Ms(StopMarginMs)) % TicksPerMs # 0
  /\ \A i \in Stations : stats[i].qSamples = FloorT

\* the pending queue-sampler activities of station i
PendingProbes(i) == {e \in events : e.kind = "SampleQueue" /\ e.sta = i}

\* C11: once the simulator has stopped, no step changes the table, the
\* sent-counts, the packets handed to the sockets or the frames notified, and
\* no event runs (the clock stays); the results loop writes its lines only
\* after the stop, from the table as it then is.
C11_ReadsAfterWrites ==
  [][/\ m_stop =>
          /\ stats' = stats
          /\ txFired' = txFired
          /\ sockSent' = sockSent
          /\ \A i \in DOMAIN apps : apps'[i].m_sent = apps[i].m_sent
          /\ now' = now
          /\ events' \subseteq events
     /\ report' # report =>
          /\ m_stop
          /\ pc = "results"
          /\ report' = [i \in Stations |-> ResultLine(i)]]_vars

\* the run has stopped with the queue sampler of every station pending at the
\* very stop time: it never runs
C11_Witness ==
  /\ pc = "results"
  /\ m_stop
  /\ \A i \in Stations :
       /\ \E e \in PendingProbes(i) : e.ts = now
       /\ stats[i].qSamples > 0

\* C12: a step of OnMacTxDataFailed, OnMacTxFinalDataFailed or OnPhyTxDrop for
\* station i adds exactly 1 to its own counter of entry i, and a step of
\* SampleQueue for station i adds the queue reading to qBytesSum and 1 to
\* qSamples of entry i; every other field and every other entry stays.
C12_HandlerEffects ==
  [][\A i \in Stations :
       /\ OnMacTxDataFailed(i) =>
            stats' = [stats EXCEPT ![i] = [stats[i] EXCEPT !.collisionsLike = @ + 1]]
       /\ OnMacTxFinalDataFailed(i) =>
            stats' = [stats EXCEPT ![i] = [stats[i] EXCEPT !.finalFailures = @ + 1]]
       /\ OnPhyTxDrop(i) =>
            stats' = [stats EXCEPT ![i] = [stats[i] EXCEPT !.phyTxDrops = @ + 1]]
       /\ SampleQueue(i) =>
            \E q \in {0, payloadSize} :
              stats' = [stats EXCEPT ![i] = [stats[i] EXCEPT !.qBytesSum = @ + q,
                                                             !.qSamples = @ + 1]]]_vars

\* a station whose entry holds one contention failure and one non-empty queue
\* reading among its samples
C12_Witness ==
  \E i \in DOMAIN stats :
    /\ stats[i].collisionsLike = 1
    /\ stats[i].qBytesSum = payloadSize
    /\ stats[i].qSamples > 1
    /\ stats[i].finalFailures = 0 /\ stats[i].phyTxDrops = 0

\* an entry of the rate list that is a number: an optional sign, then digits
\* and nothing else
IsNumber(item) ==
  LET body == IF item # << >> /\ Head(item) = "-" THEN Tail(item) ELSE item
  IN  /\ body # << >>
      /\ \A k \in 1 .. Len(body) : body[k] \in Digits

\* the entries of the rate list: what stands between the commas, the empty
\* stretches left out
HasNonNumericEntry(csv) ==
  LET items == GetLines(csv, << >>)
  IN  \E k \in 1 .. Len(items) : items[k] # << >> /\ ~IsNumber(items[k])

\* C13: a rate list with an entry that is not a number makes the assignment
\* fail (no rate vector, nothing installed, no report), and a rate list of
\* numbers only never fails.
C13_NonNumericEntryFails ==
  pc # "assign" =>
    IF HasNonNumericEntry(lambdaListCsv)
    THEN pc = "aborted" /\ lambdas = Empty /\ apps = Empty /\ report = Empty
    ELSE pc = "install"

\* C14: the results loop writes one line per station 0..nTotal-1, labelled
\* legacy exactly below nLegacy, whose counters are those of the table entry
\* and whose average queue occupancy is qBytesSum / qSamples, or 0 for an
\* entry without samples (on every entry the run reaches, the average is a
\* fraction with a non-zero denominator); the loop leaves the table as it was.
C14_ResultLines ==
  /\ [](\A i \in DOMAIN stats :
          LET avg == AvgQ(stats[i])
          IN  /\ avg.den # 0
              /\ stats[i].qSamples > 0 =>
                   avg.num * stats[i].qSamples = stats[i].qBytesSum * avg.den
              /\ stats[i].qSamples = 0 => avg.num = 0)
  /\ [](pc = "done" =>
          /\ DOMAIN report = Stations
          /\ \A i \in Stations :
               /\ report[i].isLegacy = (i < nLegacy)
               /\ report[i].avgQ = AvgQ(stats[i])
               /\ report[i].macTxDataFailed = stats[i].collisionsLike
               /\ report[i].macTxFinalDataFailed = stats[i].finalFailures
               /\ report[i].phyTxDrop = stats[i].phyTxDrops
               /\ report[i].heSuTxMpdu = stats[i].heSuTxMpdu
               /\ report[i].heTbTxMpdu = stats[i].heTbTxMpdu
               /\ report[i].heSuTxBytes = stats[i].heSuTxBytes
               /\ report[i].heTbTxBytes = stats[i].heTbTxBytes)
  /\ [][pc = "results" => stats' = stats]_vars

\* the report of a run in which the HE station had a non-empty queue reading
\* and the legacy station a physical-layer drop
C14_Witness ==
  /\ pc = "done"
  /\ \E i, j \in Stations :
       /\ ~report[i].isLegacy
       /\ report[i].avgQ = [num |-> payloadSize, den |-> stats[i].qSamples]
       /\ stats[i].qSamples > 0
       /\ report[j].isLegacy
       /\ report[j].phyTxDrop = 1
       /\ report[j].avgQ.num = 0

(* ---------------- the source driven directly ---------------- *)

\* One PoissonUdpApp taken in any state of its fields, with one SendOnce event
\* in the queue, and its two private steps run on it: the SendOnce event, and
\* a call of ScheduleNext. In the runs of main a SendOnce never runs on a
\* source that is not running (StopApplication cancels it), so the early
\* returns of the two steps are exercised here.
SourceRates == {0 - 5, 0, 5}

InitSource ==
  /\ pc = "run"
  /\ nLegacy = 1 /\ mHe = 0
  /\ simTime = 0
  /\ lambdaListCsv = << >>
  /\ lambdaLegacy = lambdaLegacyDefault /\ lambdaHe = lambdaHeDefault
  /\ maxPackets \in 0 .. 1
  /\ \E rate \in SourceRates, sent \in 0 .. MaxDirectSent, running \in BOOLEAN :
       /\ lambdas = [i \in {0} |-> rate]
       /\ apps = [i \in {0} |->
                    [Setup(rate, maxPackets) EXCEPT !.m_sent = sent,
                                                    !.m_running = running,
                                                    !.m_sendEvent = 1]]
       /\ sockSent = [i \in {0} |-> sent]
       /\ hist = [i \in {0} |->
                    [started |-> running, stopped |-> FALSE, cancelled |-> FALSE]]
  /\ stats = [i \in {0} |-> StaStats]
  /\ txFired = [i \in {0} |-> 0]
  /\ notifLeft = 0
  /\ events = {Event(1, 1, "SendOnce", 0)}
  /\ now = 0
  /\ nextUid = 2
  /\ m_stop = FALSE
  /\ report = Empty

\* the SendOnce event of station i runs
SendOnceRuns(i) ==
  /\ apps[i].m_sent <= MaxDirectSent
  /\ SendOnce(i)

\* ScheduleNext is called on the source of station i
ScheduleNextCall(i) ==
  /\ pc = "run"
  /\ nextUid <= MaxDirectUid
  /\ {e \in events : e.sta = i} = {}
  /\ \E dt \in Delays :
       LET r == ScheduleNext(apps[i], events, i, now, dt)
       IN  /\ apps' = [apps EXCEPT ![i] = r.app]
           /\ events' = r.events
           /\ nextUid' = r.nextUid
  /\ UNCHANGED <<pc, inputs, lambdas, sockSent, hist, stats, txFired, notifLeft,
                 now, m_stop, report>>

NextSource ==
  \/ \E i \in Stations : SendOnceRuns(i)
  \/ \E i \in Stations : ScheduleNextCall(i)

SpecSource == InitSource /\ [][NextSource]_vars

\* C15: a SendOnce that runs while the source is not running hands nothing to
\* the socket, leaves the source (its sent-count with it) as it was and
\* schedules nothing; a ScheduleNext called while the source is not running
\* leaves the event queue and the source as they were.
C15_NotRunningNoOp ==
  [][\A i \in DOMAIN apps :
       /\ (SendOnce(i) /\ ~apps[i].m_running) =>
            /\ apps' = apps
            /\ sockSent' = sockSent
            /\ events' = events \ {NextEv}
            /\ nextUid' = nextUid
            /\ pc' = pc
       /\ (ScheduleNextCall(i) /\ ~apps[i].m_running) =>
            /\ apps' = apps
            /\ events' = events
            /\ nextUid' = nextUid]_vars

\* the SendOnce event of a source that is not running, has a positive rate
\* and no cap has run: nothing was sent and nothing is scheduled
C15_Witness ==
  /\ now = 1
  /\ events = {}
  /\ nextUid = 2
  /\ \E i \in DOMAIN apps :
       /\ ~apps[i].m_running
       /\ apps[i].m_lambda > 0
       /\ apps[i].m_maxPackets = 0
       /\ apps[i].m_sent = 0
       /\ sockSent[i] = 0

\* C16: from the wiring on, the HE TB and HE SU frame counts and byte sums
\* of every legacy station (index < nLegacy) are 0, whatever frames the
\* station transmits; the failed-transmission, final-failure and PHY-drop
\* sinks can fire for every station of both classes, and while the simulation
\* runs every station of both classes has its queue probe.
C16_LegacyNeverClassified ==
  pc \in {"run", "results", "done"} =>
    /\ \A i \in Stations :
         i < nLegacy =>
           /\ stats[i].heTbTxMpdu = 0 /\ stats[i].heTbTxBytes = 0
           /\ stats[i].heSuTxMpdu = 0 /\ stats[i].heSuTxBytes = 0
    /\ CanNotify =>
         \A i \in Stations :
           /\ ENABLED OnMacTxDataFailed(i)
           /\ ENABLED OnMacTxFinalDataFailed(i)
           /\ ENABLED OnPhyTxDrop(i)
    /\ (pc = "run" /\ ~m_stop) =>
         \A i \in Stations : PendingProbes(i) # {}

\* a legacy station has transmitted a frame, has had a transmission failure
\* counted and its queue sampled, and its frame counts are still 0
C16_Witness ==
  /\ pc = "run"
  /\ \E i \in Stations :
       /\ i < nLegacy
       /\ txFired[i] >= 1
       /\ stats[i].collisionsLike >= 1
       /\ stats[i].qSamples >= 1
       /\ stats[i].heTbTxMpdu = 0 /\ stats[i].heSuTxMpdu = 0

\* C17: from the wiring until the global stop every station has exactly one
\* pending queue probe, due within one period of the current time, and has
\* been sampled once per period elapsed, whether its source has not started
\* yet, is running or has stopped; a probe that fires adds exactly one sample
\* to the entry of its station, leaves the source alone and schedules exactly
\* one next probe of that station at the current time + the period.
C17_ProbeLifetime ==
  /\ [](\A i \in Stations :
          (pc = "run" /\ ~m_stop) =>
            /\ Cardinality(PendingProbes(i)) = 1
            /\ \A e \in PendingProbes(i) :
                 now <= e.ts /\ e.ts <= now + Ms(ProbePeriodMs)
            /\ stats[i].qSamples * Ms(ProbePeriodMs) <= now
            /\ now <= (stats[i].qSamples + 1) * Ms(ProbePeriodMs))
  /\ [][\A i \in Stations :
          SampleQueue(i) =>
            /\ stats'[i].qSamples = stats[i].qSamples + 1
            /\ \A j \in Stations \ {i} : stats'[j] = stats[j]
            /\ apps' = apps
            /\ Cardinality(PendingProbes(i)') = 1
            /\ \A e \in PendingProbes(i)' :
                 e.ts = now' + Ms(ProbePeriodMs) /\ e \notin events]_vars

\* the probe of a station goes on after the source of the station stopped:
\* more samples than periods up to the stop of the source, the simulation
\* still running
C17_Witness ==
  /\ pc = "run" /\ ~m_stop
  /\ \E i \in Stations :
       /\ hist[i].started /\ hist[i].stopped
       /\ ~apps[i].m_running
       /\ stats[i].qSamples * Ms(ProbePeriodMs) > appStop
       /\ Cardinality(PendingProbes(i)) = 1

\* C18: from its allocation on, the stats vector has exactly the entries
\* 0 .. nTotal-1 and every pending event carries a station index of that
\* range; no step after the allocation adds, removes or moves an entry, a step
\* that changes the vector changes the entry of one station of the range, and
\* no field of any entry ever decreases.
C18_TableFixedAndMonotone ==
  /\ [](pc \in {"run", "results", "done"} =>
          /\ DOMAIN stats = Stations
          /\ \A e \in events : e.sta \in Stations)
  /\ [][(pc \in {"run", "results", "done"}) =>
          /\ DOMAIN stats' = DOMAIN stats
          /\ \A i \in DOMAIN stats :
               \A f \in DOMAIN StaStats : stats'[i][f] >= stats[i][f]
          /\ (stats' # stats =>
                \E i \in Stations :
                  \A j \in DOMAIN stats \ {i} : stats[j] = stats'[j])]_vars

\* the run is over, every entry has samples, and each kind of counter has
\* been raised in some entry
C18_Witness ==
  /\ pc = "done"
  /\ DOMAIN stats = Stations
  /\ \A i \in Stations : stats[i].qSamples > 0
  /\ \E i \in Stations : stats[i].collisionsLike > 0
  /\ \E i \in Stations : stats[i].heTbTxBytes > 0

\* a source that is running, with a positive rate, and with no cap or fewer
\* packets sent than its cap
Eligible(i) ==
  /\ apps[i].m_running
  /\ apps[i].m_lambda > 0
  /\ (apps[i].m_maxPackets = 0 \/ apps[i].m_sent < apps[i].m_maxPackets)

\* C19: between events of the run, a source that is running with a positive
\* rate and no cap or a sent-count below its cap has exactly one pending
\* SendOnce, the one its handle names, due not before the current time and
\* within the longest delay; and a SendOnce that runs on such a source hands
\* one packet to the socket, adds exactly 1 to the sent-count and leaves
\* exactly one pending SendOnce, a new one, due not before the current time.
C19_GeneratorLiveness ==
  /\ [](\A i \in Stations :
          (pc = "run" /\ Eligible(i)) =>
            /\ Cardinality(PendingSends(i)) = 1
            /\ \A e \in PendingSends(i) :
                 /\ now <= e.ts /\ e.ts <= now + MaxDelay
                 /\ e.uid = apps[i].m_sendEvent)
  /\ [][\A i \in Stations :
          (SendOnce(i) /\ Eligible(i)) =>
            /\ apps'[i].m_sent = apps[i].m_sent + 1
            /\ sockSent'[i] = sockSent[i] + 1
            /\ apps'[i].m_running
            /\ Cardinality(PendingSends(i)') = 1
            /\ \A e \in PendingSends(i)' :
                 e \notin events /\ e.ts >= now']_vars

\* a source with no cap has sent twice and its third send is pending
C19_Witness ==
  /\ pc = "run" /\ ~m_stop
  /\ \E i \in Stations :
       /\ Eligible(i)
       /\ apps[i].m_maxPackets = 0
       /\ apps[i].m_sent >= 2
       /\ sockSent[i] = apps[i].m_sent
       /\ Cardinality(PendingSends(i)) = 1

(* ---------------- a source set up with a send cap ---------------- *)

\* One PoissonUdpApp set up by a direct call of Setup with a rate and a
\* maxPackets argument (0: no cap), added to a node with the start and stop
\* times of main, in a simulator that stops 0.2 s after the stop time. main
\* itself never passes maxPackets, so a cap is reached only this way.
\* Simulator::Run keeps executing the earliest pending event until the stop
\* event or an empty queue: a run does not halt while a step is possible.
InitCapped ==
  /\ pc = "run"
  /\ nLegacy = 1 /\ mHe = 0
  /\ simTime \in 0 .. MaxSimTicks
  /\ lambdaListCsv = << >>
  /\ lambdaLegacy = lambdaLegacyDefault /\ lambdaHe = lambdaHeDefault
  /\ maxPackets \in 0 .. MaxCap
  /\ \E rate \in SourceRates :
       /\ lambdas = [i \in {0} |-> rate]
       /\ apps = [i \in {0} |-> Setup(rate, maxPackets)]
  /\ sockSent = [i \in {0} |-> 0]
  /\ hist = [i \in {0} |-> [started |-> FALSE, stopped |-> FALSE, cancelled |-> FALSE]]
  /\ stats = [i \in {0} |-> StaStats]
  /\ txFired = [i \in {0} |-> 0]
  /\ notifLeft = 0
  /\ events = {Event(0, 1, "Initialize", 0),
               Event(appStop + Ms(StopMarginMs), 2, "Stop", 0)}
  /\ now = 0
  /\ nextUid = 3
  /\ m_stop = FALSE
  /\ report = Empty

NextCapped ==
  \/ \E i \in Stations : Initialize(i)
  \/ \E i \in Stations : StartApplication(i)
  \/ \E i \in Stations : StopApplication(i)
  \/ \E i \in Stations : SendOnce(i)
  \/ SimulatorStop

SpecCapped == InitCapped /\ [][NextCapped]_vars /\ WF_vars(NextCapped)

\* a running source with a positive rate whose sent-count has reached its cap
AtCap(i) ==
  /\ pc = "run"
  /\ i \in DOMAIN apps
  /\ apps[i].m_running
  /\ apps[i].m_lambda > 0
  /\ apps[i].m_maxPackets > 0
  /\ apps[i].m_sent >= apps[i].m_maxPackets

\* C20: once a running source with a positive rate has sent as many packets
\* as its cap, it eventually has no pending SendOnce; from that point no step
\* gives it a pending SendOnce it did not have, its sent-count stays, a
\* SendOnce that still runs on it leaves it with none pending, and it stays
\* running until its StopApplication.
C20_QuiescenceAtCap ==
  /\ \A i \in 0 .. (MaxLegacy + MaxHe) : AtCap(i) ~> (PendingSends(i) = {})
  /\ [][\A i \in Stations :
          AtCap(i) =>
            /\ PendingSends(i)' \subseteq PendingSends(i)
            /\ apps'[i].m_sent = apps[i].m_sent
            /\ sockSent'[i] = sockSent[i]
            /\ SendOnce(i) => PendingSends(i)' = {} /\ apps' = apps
            /\ ~apps'[i].m_running => StopApplication(i)]_vars

\* a source at its cap is still running, the simulation too, and no SendOnce
\* of the source is pending
C20_Witness ==
  /\ pc = "run" /\ ~m_stop
  /\ \E i \in Stations :
       /\ AtCap(i)
       /\ apps[i].m_sent = apps[i].m_maxPackets
       /\ ~hist[i].stopped
       /\ PendingSends(i) = {}
       /\ ~IsPending(apps[i].m_sendEvent, events)

====
